---------------------------- MODULE Spec2Model ----------------------------
(***************************************************************************)
(* Hypothesis-generation pipeline of sc-ai-hb: the free-text variant       *)
(* agents/subtype_matcher.py ("v1") and the structured variants            *)
(* subtype_matcher_v2.py (genes only), agents/subtype_matcher_v3.py (raw   *)
(* scores) and agents/subtype_matcher_v5.py (interpreted scores).          *)
(*                                                                         *)
(* A backend text is the sequence of its lexical tokens <<kind, lexeme>>:  *)
(*   "dq"   a string literal in double quotes, without prefix; the lexeme  *)
(*          is what stands between the quotes, as a sequence of pieces     *)
(*          <<"run", s>>, s printable characters other than the backslash  *)
(*          and the literal's own quote, <<"esc", c>>, a backslash and the *)
(*          one character c after it, and <<"nl", "\n">>, a line break     *)
(*   "sq"   the same in single quotes                                      *)
(*   "num"  a run of decimal digits and underscores that starts with a     *)
(*          digit; the lexeme is the sequence of its characters            *)
(*   "name" an identifier or word (True, None, null, prose words)          *)
(*   "op"   one of { } [ ] , :   (no parentheses or signs)                 *)
(*   "ws"   a blank " " or a line break "\n"                               *)
(*   "comment"  a # and what follows it on its line, up to the last        *)
(*          character that is not a blank                                  *)
(*   "sym"  a run of the characters ~ ? $ !, which stand in no literal     *)
(* The lexeme of a name, op, ws, comment or sym token is its text.         *)
(* Render gives back the text itself, and the tokens of a text are those   *)
(* Python's lexer finds in it:                                             *)
(*   - a num or name is not followed at once by a num, a name or a string  *)
(*     literal (1e5, 0x10, 1j, b'..' are single tokens of other kinds);    *)
(*   - an empty string literal is not followed at once by a string literal *)
(*     in the same quotes (that opens a triple-quoted string);             *)
(*   - a comment is followed by blanks and a line break, or ends the text. *)
(* Escapes that take more than one character or yield a control character  *)
(* other than \n \t \r \f (\a \b \v \x \N \u \U and the octal ones) are    *)
(* not part of a text.                                                     *)
(***************************************************************************)
EXTENDS Integers, Sequences, FiniteSets, TLC

VARIABLES variant, cluster_genes, risk_scores_df, files, idx, responses,
          prompts, errors, saved, value, rendered

\* variant         which main() runs: "v1", "v2", "v3" or "v5"
\* cluster_genes   the marker-gene JSON: <<cluster_id, genes>> in key order
\* risk_scores_df  the risk-score CSV: the header of its first column and
\*                 its rows <<first cell, four score numerators>>
\* files           OUTPUT_DIR: cluster id -> its hypothesis file
\* idx             position of the for loop in cluster_genes
\* responses       what chain.invoke did in each pass, and the parse result
\* prompts         the input_vars of each pass
\* errors, saved   cluster ids logged as "Error processing" / "Saved"
\* value, rendered a score numerator and interpret_score of it ("" before)
vars == <<variant, cluster_genes, risk_scores_df, files, idx, responses,
          prompts, errors, saved, value, rendered>>

---------------------------------------------------------------------------
(* Bounds of the model *)

\* at most this many clusters in the marker-gene input
MaxClusters == 2

\* scores are the rationals n / Den, n in 0 .. Den: every thousandth and two
\* values strictly between neighbouring thousandths (never a rounding tie)
Den == 3 * 1000

---------------------------------------------------------------------------
(* Texts *)

Tok(kind, lexeme) == <<kind, lexeme>>

\* the strings of a sequence one after the other, joined by halves so
\* that a long text is no deep recursion
RECURSIVE Concat(_)
Concat(strs) ==
    IF strs = <<>> THEN ""
    ELSE IF Len(strs) = 1 THEN strs[1]
    ELSE LET half == Len(strs) \div 2
         IN  Concat(SubSeq(strs, 1, half))
                 \o Concat(SubSeq(strs, half + 1, Len(strs)))

\* the source text of the pieces of a string literal
RenderPieces(pieces) ==
    Concat([n \in 1..Len(pieces) |->
               IF pieces[n][1] = "esc" THEN "\\" \o pieces[n][2]
               ELSE pieces[n][2]])

Render(tok) ==
    IF tok[1] = "dq" THEN "\"" \o RenderPieces(tok[2]) \o "\""
    ELSE IF tok[1] = "sq" THEN "'" \o RenderPieces(tok[2]) \o "'"
    ELSE IF tok[1] = "num" THEN Concat(tok[2])
    ELSE tok[2]

RenderText(toks) == Concat([n \in 1..Len(toks) |-> Render(toks[n])])

IsWs(tok) == tok[1] = "ws"

RECURSIVE lstrip(_)
lstrip(toks) ==
    IF toks # <<>> /\ IsWs(Head(toks)) THEN lstrip(Tail(toks)) ELSE toks

RECURSIVE rstrip(_)
rstrip(toks) ==
    IF toks # <<>> /\ IsWs(toks[Len(toks)])
    THEN rstrip(SubSeq(toks, 1, Len(toks) - 1))
    ELSE toks

\* str.strip(): leading and trailing whitespace removed
strip(toks) == rstrip(lstrip(toks))

---------------------------------------------------------------------------
(* Python values *)

(***************************************************************************)
(* A JSON document is a string, a number, a constant, a list of documents  *)
(* or an object, a sequence of pairs <<key, document>> whose keys are      *)
(* strings.                                                                *)
(***************************************************************************)
JStr(s)   == [ty |-> "str", v |-> s]
JNum(s)   == [ty |-> "num", v |-> s]
JConst(s) == [ty |-> "const", v |-> s]
JList(ds) == [ty |-> "list", v |-> ds]
JDict(ps) == [ty |-> "dict", v |-> ps]

NoVal == [ty |-> "novalue", v |-> ""]

\* a dict key as JSON writes it: always a string
JsonKey(k) ==
    IF k.ty = "const"
    THEN IF k.v = "None" THEN "null"
         ELSE IF k.v = "True" THEN "true" ELSE "false"
    ELSE k.v

(***************************************************************************)
(* A Python value holds its type and content and, built from the same of   *)
(* its parts as the value is built, what json.dump makes of it: ser tells  *)
(* that json.dump can write it, which it cannot when a set sits anywhere   *)
(* in it, and doc is the document it then writes.  A value of any depth    *)
(* is so written without a recursion as deep.                              *)
(***************************************************************************)
PyStr(s) == [ty |-> "str", v |-> s, ser |-> TRUE, doc |-> JStr(s)]
PyNum(s) == [ty |-> "num", v |-> s, ser |-> TRUE, doc |-> JNum(s)]
PyConst(s) == [ty |-> "const", v |-> s, ser |-> TRUE, doc |-> JConst(s)]
PyList(xs) ==
    [ty |-> "list", v |-> xs,
     ser |-> \A n \in 1..Len(xs) : xs[n].ser,
     doc |-> JList([n \in 1..Len(xs) |-> xs[n].doc])]
PySet(xs) == [ty |-> "set", v |-> xs, ser |-> FALSE, doc |-> NoVal]
PyDict(ps) ==
    [ty |-> "dict", v |-> ps,
     ser |-> \A n \in 1..Len(ps) : ps[n][2].ser,
     doc |-> JDict([n \in 1..Len(ps) |->
                      <<JStr(JsonKey(ps[n][1])), ps[n][2].doc>>])]
PyTuple(xs) ==
    [ty |-> "tuple", v |-> xs,
     ser |-> \A n \in 1..Len(xs) : xs[n].ser,
     doc |-> JList([n \in 1..Len(xs) |-> xs[n].doc])]

Digits == {"0", "1", "2", "3", "4", "5", "6", "7", "8", "9"}

\* a numeral is a decimal integer literal of Python: underscores only
\* between two digits, and no leading zero unless every digit is zero
IsDecInteger(chars) ==
    /\ chars # <<>>
    /\ \A n \in 1..Len(chars) :
          \/ chars[n] \in Digits
          \/ /\ chars[n] = "_" /\ 1 < n /\ n < Len(chars)
             /\ chars[n - 1] \in Digits /\ chars[n + 1] \in Digits
    /\ \/ chars[1] # "0"
       \/ \A n \in 1..Len(chars) : chars[n] \in {"0", "_"}

\* CPython's limit on the digits of an int literal (int_max_str_digits)
MaxIntDigits == 4300

\* CPython's limit on the brackets open at once (the tokenizer's MAXLEVEL)
MaxLevel == 200

\* a numeral other than zero with more digits than CPython converts
ExceedsDigits(chars) ==
    /\ chars[1] # "0"
    /\ Len(SelectSeq(chars, LAMBDA c : c # "_")) > MaxIntDigits

\* the int a numeral denotes, in its decimal spelling: 00 is 0, 1_0 is 10
IntValue(chars) ==
    IF chars[1] = "0" THEN "0"
    ELSE Concat(SelectSeq(chars, LAMBDA c : c # "_"))

\* the character an escape sequence stands for; a backslash before a line
\* break continues the line, one before any other character stays
Unescape(c) ==
    IF c = "n" THEN "\n"
    ELSE IF c = "t" THEN "\t"
    ELSE IF c = "r" THEN "\r"
    ELSE IF c = "f" THEN "\f"
    ELSE IF c \in {"\\", "'", "\""} THEN c
    ELSE IF c = "\n" THEN ""
    ELSE "\\" \o c

\* the str a string literal denotes
StrValue(pieces) ==
    Concat([n \in 1..Len(pieces) |->
               IF pieces[n][1] = "esc" THEN Unescape(pieces[n][2])
               ELSE pieces[n][2]])

\* a string literal in single or double quotes ends on its line
Unterminated(pieces) == \E n \in 1..Len(pieces) : pieces[n][1] = "nl"

Hashable(x) == x.ty \in {"str", "num", "const"}

\* Python key equality: True == 1 and False == 0
KeyNorm(k) ==
    IF k = PyConst("True") THEN PyNum("1")
    ELSE IF k = PyConst("False") THEN PyNum("0")
    ELSE k

\* d[k] = x on the ordered pairs of a dict: an equal key keeps its place and
\* its first spelling, and takes the new value
DictPut(ps, k, x) ==
    IF \E n \in 1..Len(ps) : KeyNorm(ps[n][1]) = KeyNorm(k)
    THEN [n \in 1..Len(ps) |->
            IF KeyNorm(ps[n][1]) = KeyNorm(k) THEN <<ps[n][1], x>> ELSE ps[n]]
    ELSE Append(ps, <<k, x>>)

---------------------------------------------------------------------------
(* ast.literal_eval on a token sequence that str.strip() has trimmed *)

(***************************************************************************)
(* The text is read token by token with a stack of open brackets.  A frame *)
(* holds what its bracket has collected: the finished items, and the value *)
(* read last that no comma, colon or bracket has closed yet.  The bottom   *)
(* frame is the expression itself, which stands on one logical line: lines *)
(* of blanks and comments may come before it ("pre") and after it          *)
(* ("post").  An empty stack is a syntax, value or type error.             *)
(***************************************************************************)
Frame(kind) ==
    [kind |-> kind,      \* "top", "list" or "brace"
     phase |-> "pre",    \* top: "pre", "expr" or "post"
     indent |-> FALSE,   \* top, pre: blanks have opened the line
     mode |-> "none",    \* "tuple" for top, "dict" or "set" for brace
     depth |-> 0,        \* grammar rules the parser is in at the bracket
     items |-> <<>>,     \* values, or <<key, value>> pairs of a dict
     has |-> FALSE,      \* a value is pending
     cur |-> NoVal,      \* the pending value
     cat |-> FALSE,      \* the pending value is a run of string literals
     pos |-> "key",      \* dict: the pending value is a "key" or a "val"
     key |-> NoVal]      \* dict: the key whose value is being read

Error == <<>>

Top(stack) == stack[Len(stack)]
Replace(stack, f) == [stack EXCEPT ![Len(stack)] = f]

\* a set keeps one of equal elements
SetAdd(xs, x) ==
    IF \E n \in 1..Len(xs) : KeyNorm(xs[n]) = KeyNorm(x) THEN xs
    ELSE Append(xs, x)

\* a value arrives: adjacent string literals are concatenated, any other
\* value next to a pending one is a syntax error
TakeValue(stack, x, isString) ==
    LET f == Top(stack)
    IN  IF ~f.has
        THEN Replace(stack, [f EXCEPT !.has = TRUE, !.cur = x, !.cat = isString])
        ELSE IF isString /\ f.cat
        THEN Replace(stack, [f EXCEPT !.cur = PyStr(f.cur.v \o x.v)])
        ELSE Error

Comma(stack) ==
    LET f == Top(stack)
        next == [f EXCEPT !.has = FALSE, !.cur = NoVal, !.cat = FALSE]
    IN  IF ~f.has THEN Error
        ELSE IF f.kind = "list"
        THEN Replace(stack, [next EXCEPT !.items = Append(f.items, f.cur)])
        ELSE IF f.kind = "top"
        THEN Replace(stack, [next EXCEPT !.items = Append(f.items, f.cur),
                                         !.mode = "tuple"])
        ELSE IF f.mode = "dict"
        THEN IF f.pos = "val"
             THEN Replace(stack,
                     [next EXCEPT !.items = DictPut(f.items, f.key, f.cur),
                                  !.pos = "key", !.key = NoVal])
             ELSE Error
        ELSE IF Hashable(f.cur)
        THEN Replace(stack, [next EXCEPT !.items = SetAdd(f.items, f.cur),
                                         !.mode = "set"])
        ELSE Error       \* TypeError: unhashable type

Colon(stack) ==
    LET f == Top(stack)
    IN  IF /\ f.kind = "brace" /\ f.has
           /\ f.mode \in {"none", "dict"} /\ f.pos = "key"
           /\ Hashable(f.cur)
        THEN Replace(stack, [f EXCEPT !.mode = "dict", !.pos = "val",
                                      !.key = f.cur, !.has = FALSE,
                                      !.cur = NoVal, !.cat = FALSE])
        ELSE Error

\* the value a closing bracket completes, NoVal when it cannot close here
Closed(f, lexeme) ==
    IF f.kind = "list" /\ lexeme = "]"
    THEN PyList(IF f.has THEN Append(f.items, f.cur) ELSE f.items)
    ELSE IF f.kind = "brace" /\ lexeme = "}"
    THEN IF f.mode = "dict"
         THEN IF f.pos = "val" /\ f.has
              THEN PyDict(DictPut(f.items, f.key, f.cur))
              ELSE IF f.pos = "key" /\ ~f.has THEN PyDict(f.items)
              ELSE NoVal
         ELSE IF ~f.has
         THEN IF f.mode = "none" THEN PyDict(<<>>) ELSE PySet(f.items)
         ELSE IF Hashable(f.cur) THEN PySet(SetAdd(f.items, f.cur))
         ELSE NoVal      \* TypeError: unhashable type
    ELSE NoVal

Close(stack, lexeme) ==
    LET x == Closed(Top(stack), lexeme)
    IN  IF x = NoVal THEN Error
        ELSE TakeValue(SubSeq(stack, 1, Len(stack) - 1), x, FALSE)

\* The parser descends through the rules of the grammar and counts the
\* rules it is in; more than MaxStack of them (CPython's MAXSTACK) is a
\* MemoryError.  From an expression down to a number, True, False or None
\* it is in AtomDepth rules, down to a string literal in StringDepth, and
\* a bracket puts
\* FirstDepth rules around its first element and LaterDepth around each
\* later one; an element behind the first comma outside any bracket
\* stands TupleLaterDepth rules deeper than the first.  The parser looks
\* for an element behind every opening bracket and every comma, whether
\* or not one stands there.
MaxStack == 6000
AtomDepth == 25
StringDepth == 27
FirstDepth == 29
LaterDepth == 30
TupleLaterDepth == 2

\* the rules the parser is in where the next element of the frame starts;
\* key and value of a dict's pair stand equally deep
ElementDepth(f) ==
    f.depth + (IF f.kind = "top"
               THEN IF f.items = <<>> THEN 0 ELSE TupleLaterDepth
               ELSE IF f.items = <<>> THEN FirstDepth ELSE LaterDepth)

\* the parser runs out of its rule stack on a leaf that takes that many rules
Overflows(stack, rules) == ElementDepth(Top(stack)) + rules > MaxStack

\* one token of the expression
Token(stack, tok) ==
    IF tok[1] \in {"dq", "sq"}
    THEN IF Unterminated(tok[2])
         THEN Error      \* SyntaxError: unterminated string literal
         ELSE IF Overflows(stack, StringDepth)
         THEN Error      \* MemoryError: parser stack overflow
         ELSE TakeValue(stack, PyStr(StrValue(tok[2])), TRUE)
    ELSE IF tok[1] = "num"
    THEN IF IsDecInteger(tok[2]) /\ ~ExceedsDigits(tok[2])
                /\ ~Overflows(stack, AtomDepth)
         THEN TakeValue(stack, PyNum(IntValue(tok[2])), FALSE)
         ELSE Error      \* SyntaxError: invalid decimal literal, or
                         \* exceeds the limit for integer string conversion;
                         \* MemoryError: parser stack overflow
    ELSE IF tok[1] = "name"
    THEN IF tok[2] \in {"True", "False", "None"}
                /\ ~Overflows(stack, AtomDepth)
         THEN TakeValue(stack, PyConst(tok[2]), FALSE)
         ELSE Error      \* ValueError: malformed node or string;
                         \* MemoryError: parser stack overflow
    ELSE IF tok[1] = "op"
    THEN IF tok[2] \in {"[", "{"}
         THEN LET opened ==
                      [Frame(IF tok[2] = "[" THEN "list" ELSE "brace")
                          EXCEPT !.depth = ElementDepth(Top(stack))]
              IN  IF Top(stack).has THEN Error
                  ELSE IF Len(stack) > MaxLevel
                  THEN Error \* SyntaxError: too many nested parentheses
                  ELSE IF Overflows(Append(stack, opened), AtomDepth)
                  THEN Error \* MemoryError: parser stack overflow
                  ELSE Append(stack, opened)
         ELSE IF tok[2] = ","
         THEN LET next == Comma(stack)
              IN  IF next = Error THEN Error
                  ELSE IF Overflows(next, AtomDepth)
                  THEN Error \* MemoryError: parser stack overflow
                  ELSE next
         ELSE IF tok[2] = ":" THEN Colon(stack)
         ELSE Close(stack, tok[2])
    ELSE Error

\* one token: comments count for nothing, and neither do blanks and line
\* breaks inside brackets; outside them a line break ends the expression,
\* and blanks must not open the line the expression starts on
Step(stack, tok) ==
    LET f == stack[1]
    IN  IF tok[1] = "comment" THEN stack
        ELSE IF tok[1] = "ws"
        THEN IF Len(stack) > 1 THEN stack
             ELSE IF tok[2] = "\n"
             THEN <<[f EXCEPT !.indent = FALSE,
                              !.phase = IF f.phase = "expr" THEN "post"
                                        ELSE f.phase]>>
             ELSE IF f.phase = "pre" THEN <<[f EXCEPT !.indent = TRUE]>>
             ELSE stack
        ELSE IF Len(stack) > 1 THEN Token(stack, tok)
        ELSE IF f.phase = "post" THEN Error
        ELSE IF f.phase = "pre" /\ f.indent
        THEN Error       \* IndentationError: unexpected indent
        ELSE Token(<<[f EXCEPT !.phase = "expr"]>>, tok)

\* the tokens lo..hi one after the other, until one is an error; read by
\* halves so that a long text is no deep recursion
RECURSIVE Run(_, _, _, _)
Run(toks, lo, hi, stack) ==
    IF lo > hi \/ stack = Error THEN stack
    ELSE IF lo = hi THEN Step(stack, toks[lo])
    ELSE LET mid == (lo + hi) \div 2
             first == Run(toks, lo, mid, stack)
         IN  IF first = Error THEN Error ELSE Run(toks, mid + 1, hi, first)

\* ast.literal_eval(text): the value of the one literal, or an exception;
\* values separated by commas outside any bracket make a tuple
literal_eval(toks) ==
    LET stack == Run(toks, 1, Len(toks), <<Frame("top")>>)
        f == stack[1]
    IN  IF Len(stack) # 1 THEN [ok |-> FALSE, val |-> NoVal]
        ELSE IF f.mode = "tuple"
        THEN [ok |-> TRUE,
              val |-> PyTuple(IF f.has THEN Append(f.items, f.cur) ELSE f.items)]
        ELSE IF f.has THEN [ok |-> TRUE, val |-> f.cur]
        ELSE [ok |-> FALSE, val |-> NoVal]

---------------------------------------------------------------------------
(* json.dump *)

\* json.dump raises TypeError on a set, wherever it sits
Serializable(x) == x.ser

\* the JSON document json.dump writes for a serializable value: a tuple as
\* a list, the keys of a dict as strings
JsonDoc(x) == x.doc

\* open(output_file, "w") creates or empties the file, json.dump then writes
\* it piece by piece: a TypeError on the way leaves the file cut short
WriteFile(hypothesis_data) ==
    IF Serializable(hypothesis_data)
    THEN [state |-> "written", doc |-> JsonDoc(hypothesis_data)]
    ELSE [state |-> "truncated", doc |-> NoVal]

NoFile == [state |-> "absent", doc |-> NoVal]

---------------------------------------------------------------------------
(* Score Interpreter *)

\* the thresholds of interpret_score, in hundredths
HighThreshold == 67
LowThreshold == 34

\* f"{value:.3f}" of the score n / Den
Format3f(n) ==
    LET m == (2000 * n + Den) \div (2 * Den)
    IN  ToString(m \div 1000) \o "." \o ToString((m \div 100) % 10)
            \o ToString((m \div 10) % 10) \o ToString(m % 10)

\* thresholds that leave the boundary values in the lower band
ScoreLabel_Exclusive(n) ==
    IF 100 * n > HighThreshold * Den THEN "high"
    ELSE IF 100 * n > LowThreshold * Den THEN "intermediate"
    ELSE "low"

ScoreLabel(n) ==
    IF 100 * n >= HighThreshold * Den THEN "high"
    ELSE IF 100 * n >= LowThreshold * Den THEN "intermediate"
    ELSE "low"

interpret_score(n) == Format3f(n) \o " (" \o ScoreLabel(n) \o ")"

---------------------------------------------------------------------------
(* Inputs *)

Variants == {"v1", "v2", "v3", "v5"}

\* cluster ids of the marker-gene JSON: two small integers rendered as text
\* and one name
ClusterIds == {"0", "1", "T"}

\* index cells that pandas reads as integers
IntCells == {ToString(n) : n \in 0..9}

\* the gene list of each cluster, most upregulated first
GenesOf(cluster_id) ==
    IF cluster_id = "0" THEN <<"AFP", "GPC3", "DLK1">>
    ELSE IF cluster_id = "1" THEN <<"GPC3", "AFP">>
    ELSE <<>>

\* sequences of distinct cluster ids, at most MaxClusters long: the key
\* order of the JSON object json.load returns
RECURSIVE IdSeqs(_)
IdSeqs(n) ==
    IF n = 0 THEN {<<>>}
    ELSE LET shorter == IdSeqs(n - 1)
         IN  shorter \cup
             {Append(q, c) : <<q, c>> \in
                 {<<q, c>> \in shorter \X ClusterIds :
                     /\ Len(q) = n - 1
                     /\ \A m \in 1..Len(q) : q[m] # c}}

MarkerInputs ==
    {[n \in 1..Len(q) |-> <<q[n], GenesOf(q[n])>>] : q \in IdSeqs(MaxClusters)}

\* the four scaled scores of a cluster's row, as numerators over Den:
\* proliferation, stemness, immune, prognostic
ScoresOf(cell) ==
    IF cell = "0" THEN <<2400, 2700, 300, 2250>>
    ELSE IF cell = "1" THEN <<1019, 2010, 0, 2009>>
    ELSE <<3000, 1020, 1500, 1>>

\* the header of the CSV's first column, which holds the cluster ids
IdColumns == {"cluster", "leiden"}

\* the order in which the rows of a CSV stand
CellOrder == <<"0", "1", "T">>

RowsOf(cells) ==
    LET kept == SelectSeq(CellOrder, LAMBDA c : c \in cells)
    IN  [n \in 1..Len(kept) |-> <<kept[n], ScoresOf(kept[n])>>]

\* risk-score CSVs: a row of four scores for some of the cluster ids
RiskTables ==
    {[idcol |-> h, rows |-> RowsOf(cells)] :
        h \in IdColumns, cells \in SUBSET ClusterIds}

\* the variants that read no risk-score CSV
NoTable == [idcol |-> "cluster", rows |-> <<>>]

---------------------------------------------------------------------------
(* Risk-score dictionaries, built when the module is loaded *)

\* pd.read_csv types a column: int64 when every cell is an integer, text
\* otherwise
InferredKey(df, n) ==
    IF \A m \in 1..Len(df.rows) : df.rows[m][1] \in IntCells
    THEN <<"int", df.rows[n][1]>> ELSE <<"str", df.rows[n][1]>>

\* the index label of row n.  v3 reads the first column as the index and
\* keeps it as read.  v5 makes the column named cluster the index and, when
\* no column has that name, keeps the row positions 0, 1, ..; either index
\* then goes through astype(str)
IndexKey(v, df, n) ==
    IF v = "v5"
    THEN IF df.idcol = "cluster" THEN <<"str", df.rows[n][1]>>
         ELSE <<"str", ToString(n - 1)>>
    ELSE InferredKey(df, n)

\* risk_scores_df[column].to_dict(), v5 mapping each value by interpret_score;
\* of rows with the same label the last one stays
ScoreDict(v, df, column) ==
    LET keys == {IndexKey(v, df, n) : n \in 1..Len(df.rows)}
        last(k) == CHOOSE n \in 1..Len(df.rows) :
                      /\ IndexKey(v, df, n) = k
                      /\ \A m \in 1..Len(df.rows) :
                            IndexKey(v, df, m) = k => m <= n
    IN  [k \in keys |->
            IF v = "v5" THEN interpret_score(df.rows[last(k)][2][column])
            ELSE df.rows[last(k)][2][column]]

\* dict.get(cluster_id, default): cluster_id is a str key of the JSON input
DictGet(d, cluster_id, default) ==
    IF <<"str", cluster_id>> \in DOMAIN d THEN d[<<"str", cluster_id>>]
    ELSE default

\* the score string embedded in the prompt
ScoreVar(v, df, column, cluster_id) ==
    IF v = "v5"
    THEN DictGet(ScoreDict(v, df, column), cluster_id, "0.000 (low)")
    ELSE Format3f(DictGet(ScoreDict(v, df, column), cluster_id, 0))

RECURSIVE JoinGenes(_)
JoinGenes(genes) ==
    IF genes = <<>> THEN ""
    ELSE IF Len(genes) = 1 THEN genes[1]
    ELSE genes[1] \o ", " \o JoinGenes(Tail(genes))

\* input_vars of one cluster
InputVars(v, df, cluster_id, genes) ==
    IF v \in {"v1", "v2"}
    THEN [cluster_id |-> cluster_id, gene_list |-> JoinGenes(genes)]
    ELSE [cluster_id |-> cluster_id, gene_list |-> JoinGenes(genes),
          proliferation_score |-> ScoreVar(v, df, 1, cluster_id),
          stemness_score |-> ScoreVar(v, df, 2, cluster_id),
          immune_score |-> ScoreVar(v, df, 3, cluster_id),
          prognostic_score |-> ScoreVar(v, df, 4, cluster_id)]

---------------------------------------------------------------------------
(* Backend texts *)

\* the closed set of subtypes the prompt template names
Subtypes == {"fetal", "embryonal", "macrotrabecular", "mixed"}

\* string literals without a backslash
Dq(s)   == Tok("dq", IF s = "" THEN <<>> ELSE << <<"run", s>> >>)
Sq(s)   == Tok("sq", IF s = "" THEN <<>> ELSE << <<"run", s>> >>)
Num(cs) == Tok("num", cs)
Name(s) == Tok("name", s)
Op(s)   == Tok("op", s)
Sym(s)  == Tok("sym", s)
Comment(s) == Tok("comment", s)
Sp      == Tok("ws", " ")
Nl      == Tok("ws", "\n")

RECURSIVE GeneItems(_)
GeneItems(genes) ==
    IF genes = <<>> THEN <<>>
    ELSE IF Len(genes) = 1 THEN <<Dq(genes[1])>>
    ELSE <<Dq(genes[1]), Op(","), Sp>> \o GeneItems(Tail(genes))

\* the object the prompt template asks for:
\* {"Cluster": "..", "CandidateSubtype": "..", "TopGenes": [..],
\*  "SupportingEvidence": ["markers"], "SuggestedExperiments": ["qPCR"]}
RecordText(cluster_id, subtype, genes) ==
    <<Op("{"), Dq("Cluster"), Op(":"), Sp, Dq(cluster_id), Op(","), Sp,
      Dq("CandidateSubtype"), Op(":"), Sp, Dq(subtype), Op(","), Sp,
      Dq("TopGenes"), Op(":"), Sp, Op("[")>>
    \o GeneItems(genes)
    \o <<Op("]"), Op(","), Sp,
         Dq("SupportingEvidence"), Op(":"), Sp,
         Op("["), Dq("markers"), Op("]"), Op(","), Sp,
         Dq("SuggestedExperiments"), Op(":"), Sp,
         Op("["), Dq("qPCR"), Op("]"), Op("}")>>

\* what the completion backend may answer for a cluster: the object asked
\* for, and texts that depart from it
BackendTexts(cluster_id, genes) ==
    { RecordText(cluster_id, "embryonal", genes),
      <<Nl>> \o RecordText(cluster_id, "fetal", genes) \o <<Sp, Nl>>,
      RecordText(cluster_id, "hepatocellular", genes),
      RecordText("9", "mixed", <<"ALB">>),
      <<Op("{"), Sq("Cluster"), Op(":"), Sp, Sq(cluster_id), Op("}")>>,
      <<Op("{"), Dq("CandidateSubtype"), Op(":"), Sp, Dq("fetal"), Op(","), Sp,
        Dq("RawResponse"), Op(":"), Sp,
        Tok("dq", << <<"run", "x">>, <<"esc", "n">> >>), Op("}")>>,
      <<Op("{"), Dq("Cluster"), Op(":"), Sp, Name("null"), Op("}")>>,
      <<Comment("# cluster " \o cluster_id), Nl>>
          \o RecordText(cluster_id, "mixed", genes),
      <<Sym("~~~"), Name("json"), Nl>>
          \o RecordText(cluster_id, "fetal", genes) \o <<Nl, Sym("~~~")>>,
      <<Name("not"), Sp, Name("a"), Sp, Name("json"), Sp, Name("object")>>,
      <<Sp, Name("unsure"), Nl>>,
      <<Num(<<"4", "2">>)>>,
      <<Op("{"), Num(<<"1">>), Op(","), Sp, Num(<<"2">>), Op("}")>> }

---------------------------------------------------------------------------
(* Batch Orchestrator: main() *)

\* the fallback record of the except branch around ast.literal_eval
Degraded(cluster_id, genes, raw_output) ==
    PyDict(<< <<PyStr("Cluster"), PyStr(cluster_id)>>,
              <<PyStr("TopGenes"),
                PyList([n \in 1..Len(genes) |-> PyStr(genes[n])])>>,
              <<PyStr("RawResponse"), PyStr(RenderText(raw_output))>> >>)

\* hypothesis_data for a backend text: the literal, or the fallback record
\* with the warning that the text could not be parsed
Resolve(cluster_id, genes, text) ==
    LET raw_output == strip(text)
        r == literal_eval(raw_output)
    IN  [parsed |-> r.ok,
         hypothesis_data |->
            IF r.ok THEN r.val ELSE Degraded(cluster_id, genes, raw_output)]

\* the record v1 writes: it keeps the stripped text and parses nothing
hypothesis(cluster_id, genes, text) ==
    PyDict(<< <<PyStr("cluster"), PyStr(cluster_id)>>,
              <<PyStr("top_genes"),
                PyList([n \in 1..Len(genes) |-> PyStr(genes[n])])>>,
              <<PyStr("llm_response"), PyStr(RenderText(strip(text)))>> >>)

Done == idx > Len(cluster_genes)

Init ==
    /\ variant \in Variants
    /\ cluster_genes \in MarkerInputs
    /\ risk_scores_df \in
          IF variant \in {"v1", "v2"} THEN {NoTable} ELSE RiskTables
    /\ files = [c \in ClusterIds |-> NoFile]
    /\ idx = 1
    /\ responses = <<>>
    /\ prompts = <<>>
    /\ errors = {}
    /\ saved = {}
    /\ value = 0
    /\ rendered = ""

\* one pass of the loop body in which chain.invoke raises: the outer except
\* logs the error and the loop goes on
BackendRaises ==
    /\ ~Done
    /\ LET cluster_id == cluster_genes[idx][1]
           genes == cluster_genes[idx][2]
       IN  /\ prompts' = Append(prompts,
                  InputVars(variant, risk_scores_df, cluster_id, genes))
           /\ responses' = Append(responses,
                  [raised |-> TRUE, text |-> <<>>, parsed |-> FALSE])
           /\ errors' = errors \cup {cluster_id}
    /\ idx' = idx + 1
    /\ UNCHANGED <<variant, cluster_genes, risk_scores_df, files, saved,
                   value, rendered>>

\* one pass of the loop body in which chain.invoke returns a text: resolve
\* it (v1: wrap it), write the file, and log "Saved" or, when json.dump
\* raises, the error
BackendReturns ==
    /\ ~Done
    /\ LET cluster_id == cluster_genes[idx][1]
           genes == cluster_genes[idx][2]
       IN  \E text \in BackendTexts(cluster_id, genes) :
             LET resolved ==
                     IF variant = "v1"
                     THEN [parsed |-> FALSE,
                           hypothesis_data |-> hypothesis(cluster_id, genes, text)]
                     ELSE Resolve(cluster_id, genes, text)
                 file == WriteFile(resolved.hypothesis_data)
             IN  /\ prompts' = Append(prompts,
                        InputVars(variant, risk_scores_df, cluster_id, genes))
                 /\ responses' = Append(responses,
                        [raised |-> FALSE, text |-> text,
                         parsed |-> resolved.parsed])
                 /\ files' = [files EXCEPT ![cluster_id] = file]
                 /\ IF file.state = "written"
                    THEN saved' = saved \cup {cluster_id} /\ errors' = errors
                    ELSE errors' = errors \cup {cluster_id} /\ saved' = saved
    /\ idx' = idx + 1
    /\ UNCHANGED <<variant, cluster_genes, risk_scores_df, value, rendered>>

Next == BackendRaises \/ BackendReturns

Spec == Init /\ [][Next]_vars

\* the loop body is straight-line code around one blocking call: a pass that
\* can be taken is taken
FairSpec == Spec /\ WF_vars(Next)

---------------------------------------------------------------------------
(* Score Interpreter on its own: every score n / Den *)

ScoreInit ==
    /\ value \in 0..Den
    /\ rendered = ""
    /\ variant = "v5"
    /\ cluster_genes = <<>>
    /\ risk_scores_df = NoTable
    /\ files = [c \in ClusterIds |-> NoFile]
    /\ idx = 1
    /\ responses = <<>>
    /\ prompts = <<>>
    /\ errors = {}
    /\ saved = {}

Interpret ==
    /\ rendered = ""
    /\ rendered' = interpret_score(value)
    /\ UNCHANGED <<variant, cluster_genes, risk_scores_df, files, idx,
                   responses, prompts, errors, saved, value>>

SpecScore == ScoreInit /\ [][Interpret]_vars

---------------------------------------------------------------------------
(* Reading the run: processed clusters and written documents *)

\* the variants whose main() resolves the backend text into a record
Structured == variant \in {"v2", "v3", "v5"}

\* the cluster ids that have a row in the risk-score CSV
TableIds == {risk_scores_df.rows[n][1] : n \in 1..Len(risk_scores_df.rows)}
RowOf(c) ==
    risk_scores_df.rows[CHOOSE n \in 1..Len(risk_scores_df.rows) :
                            risk_scores_df.rows[n][1] = c][2]

Processed == 1..Len(responses)
ClusterAt(k) == cluster_genes[k][1]
GenesAt(k) == cluster_genes[k][2]
Returned(k) == ~responses[k].raised
Written(c) == files[c].state = "written"

HasKey(doc, key) ==
    doc.ty = "dict" /\ \E n \in 1..Len(doc.v) : doc.v[n][1] = JStr(key)
Field(doc, key) ==
    doc.v[CHOOSE n \in 1..Len(doc.v) : doc.v[n][1] = JStr(key)][2]
Keys(doc) == [n \in 1..Len(doc.v) |-> doc.v[n][1].v]

GeneList(genes) == JList([n \in 1..Len(genes) |-> JStr(genes[n])])

\* the text between its first and its last token that is not whitespace
Core(text) ==
    LET solid == {n \in 1..Len(text) : text[n][1] # "ws"}
    IN  IF solid = {} THEN <<>>
        ELSE SubSeq(text,
                    CHOOSE n \in solid : \A m \in solid : n <= m,
                    CHOOSE n \in solid : \A m \in solid : n >= m)

\* the keys of the object the prompt template documents, the optional
\* score fields left out
DocumentedKeys ==
    {"Cluster", "CandidateSubtype", "TopGenes", "SupportingEvidence",
     "SuggestedExperiments"}

\* the text returned for cluster k, stripped, is a structured literal: one
\* object with the documented keys
IsStructuredLiteral(k) ==
    /\ responses[k].parsed
    /\ LET x == Resolve(ClusterAt(k), GenesAt(k),
                        responses[k].text).hypothesis_data
       IN  /\ x.ty = "dict"
           /\ \A key \in DocumentedKeys :
                 \E n \in 1..Len(x.v) : x.v[n][1] = PyStr(key)

\* the degraded shape {Cluster, TopGenes, RawResponse} of cluster k with the
\* given raw text
IsDegraded(doc, k, raw) ==
    /\ doc.ty = "dict"
    /\ Keys(doc) = <<"Cluster", "TopGenes", "RawResponse">>
    /\ Field(doc, "Cluster") = JStr(ClusterAt(k))
    /\ Field(doc, "TopGenes") = GeneList(GenesAt(k))
    /\ Field(doc, "RawResponse") = JStr(raw)

\* m thousandths written with three decimals
Decimal3(m) ==
    LET digit == [d \in 0..9 |-> ToString(d)]
    IN  ToString(m \div 1000) \o "." \o digit[(m % 1000) \div 100]
            \o digit[(m % 100) \div 10] \o digit[m % 10]

---------------------------------------------------------------------------
(* Claims *)

\* C1: in a structured variant every cluster for which the backend returned
\* some text has its output document, whatever the text is.
C1_OneDocumentPerCluster ==
    Structured => \A k \in Processed : Returned(k) => Written(ClusterAt(k))

\* C2: when the processing of a cluster raises, every cluster up to the
\* loop's position has still been attempted and every other cluster whose
\* backend call returned text has its output document.
C2_Isolation ==
    /\ Len(responses) = idx - 1
    /\ \A k \in Processed : ClusterAt(k) \in errors =>
          \A j \in Processed \ {k} : Returned(j) => Written(ClusterAt(j))

\* The part of C2 about the loop itself: a failure never stops it. Every
\* cluster before idx was attempted, in input order, and a pass is possible
\* as long as clusters remain.
LoopProceeds ==
    /\ Len(responses) = idx - 1 /\ Len(prompts) = idx - 1
    /\ idx <= Len(cluster_genes) + 1
    /\ \A k \in 1..Len(prompts) : prompts[k].cluster_id = ClusterAt(k)
    /\ ~Done => ENABLED Next

\* The part of C2 about the end of the run: the loop reaches the end of the
\* input.
LoopTerminates == <>Done

\* C3: a cluster whose processing raised outside the resolver (it is logged
\* as an error) has nothing under its key in the output location.
C3_NoDocumentOnError ==
    \A c \in errors : files[c] = NoFile

\* C4: interpret_score gives the score rounded to three decimals and, in
\* parentheses, low below 0.34, intermediate from 0.34 to below 0.67, high
\* from 0.67 on.
C4_InterpretScore ==
    rendered # "" =>
        \E m \in 0..1000 :
            /\ 2 * (1000 * value - m * Den) < Den
            /\ 2 * (m * Den - 1000 * value) < Den
            /\ rendered = Decimal3(m) \o " (" \o
                  (IF 100 * value < 34 * Den THEN "low"
                   ELSE IF 100 * value < 67 * Den THEN "intermediate"
                   ELSE "high") \o ")"

\* the boundary 0.67 was interpreted, and falls in the higher band
C4_Witness ==
    100 * value = 67 * Den /\ rendered = "0.670 (high)"

\* C5: CandidateSubtype, when a written document has it, is one of the
\* fixed subtypes.
C5_SubtypeInFixedSet ==
    \A c \in ClusterIds :
        Written(c) /\ HasKey(files[c].doc, "CandidateSubtype") =>
            Field(files[c].doc, "CandidateSubtype") \in
                {JStr(t) : t \in Subtypes}

\* C6: in a structured variant a text that fails to parse as a structured
\* literal yields, without an error, the degraded record with the cluster
\* id, the input genes and the backend text verbatim.
C6_FallbackVerbatim ==
    Structured => \A k \in Processed :
        Returned(k) /\ ~IsStructuredLiteral(k) =>
            /\ Written(ClusterAt(k))
            /\ ClusterAt(k) \notin errors
            /\ IsDegraded(files[ClusterAt(k)].doc, k,
                          RenderText(responses[k].text))

\* The part of C6 that holds: a text on which ast.literal_eval raises
\* yields, without an error, the degraded record with the cluster id, the
\* input genes and the text without its leading and trailing whitespace.
FallbackKeepsStrippedText ==
    Structured => \A k \in Processed : Returned(k) /\ ~responses[k].parsed =>
        /\ Written(ClusterAt(k))
        /\ ClusterAt(k) \notin errors
        /\ IsDegraded(files[ClusterAt(k)].doc, k,
                      RenderText(Core(responses[k].text)))

\* C7: a document written by a structured variant has RawResponse exactly
\* when it has no CandidateSubtype, and one without CandidateSubtype has the
\* degraded shape.
C7_DistinguishedBySubtype ==
    Structured => \A k \in Processed : Written(ClusterAt(k)) =>
        LET doc == files[ClusterAt(k)].doc
        IN  /\ HasKey(doc, "RawResponse") <=> ~HasKey(doc, "CandidateSubtype")
            /\ ~HasKey(doc, "CandidateSubtype") =>
                  IsDegraded(doc, k, RenderText(Core(responses[k].text)))

\* C8: in v5 a cluster without a row in the risk-score table is processed
\* all the same, and its prompt carries "0.000 (low)" for each of the four
\* scores.
C8_MissingScoreDefault ==
    variant = "v5" =>
        \A k \in 1..(idx - 1) : ClusterAt(k) \notin TableIds =>
            /\ k <= Len(prompts) /\ k <= Len(responses)
            /\ prompts[k].cluster_id = ClusterAt(k)
            /\ prompts[k].proliferation_score = "0.000 (low)"
            /\ prompts[k].stemness_score = "0.000 (low)"
            /\ prompts[k].immune_score = "0.000 (low)"
            /\ prompts[k].prognostic_score = "0.000 (low)"

\* The part of C8 that holds: when the CSV's first column is named cluster,
\* v5 sends the default for every cluster without a row, and the row's
\* interpreted scores for every cluster with one.
ClusterColumnLookup ==
    variant = "v5" /\ risk_scores_df.idcol = "cluster" =>
        \A k \in 1..Len(prompts) :
            LET shown(col) == IF ClusterAt(k) \in TableIds
                              THEN interpret_score(RowOf(ClusterAt(k))[col])
                              ELSE "0.000 (low)"
            IN  /\ prompts[k].proliferation_score = shown(1)
                /\ prompts[k].stemness_score = shown(2)
                /\ prompts[k].immune_score = shown(3)
                /\ prompts[k].prognostic_score = shown(4)

\* C9: in v3 and v5 the prompt of a cluster that has a row in the
\* risk-score table carries that row's four scores.
C9_ScoresEmbedded ==
    variant \in {"v3", "v5"} =>
        \A k \in 1..Len(prompts) : ClusterAt(k) \in TableIds =>
            LET row == RowOf(ClusterAt(k))
                shown(n) == IF variant = "v5" THEN interpret_score(n)
                            ELSE Format3f(n)
            IN  /\ prompts[k].proliferation_score = shown(row[1])
                /\ prompts[k].stemness_score = shown(row[2])
                /\ prompts[k].immune_score = shown(row[3])
                /\ prompts[k].prognostic_score = shown(row[4])

\* C10: every document written by a structured variant names the cluster
\* it is stored under and carries that cluster's input genes in their order.
C10_ClusterAndGenes ==
    Structured => \A k \in Processed : Written(ClusterAt(k)) =>
        LET doc == files[ClusterAt(k)].doc
        IN  /\ HasKey(doc, "Cluster") /\ HasKey(doc, "TopGenes")
            /\ Field(doc, "Cluster") = JStr(ClusterAt(k))
            /\ Field(doc, "TopGenes") = GeneList(GenesAt(k))

=============================================================================
